---- MODULE Spec2Model ----
(***************************************************************************)
(* Model of the full-stockout persistence pipeline of                      *)
(* src/daily_store_product.py: load_daily_store_product produces one row   *)
(* per (dt, store_name, e_code); calc_full_oos_streaks flags each row,     *)
(* sorts, numbers the runs of each (store_name, e_code) group, aggregates  *)
(* the runs and summarises the longest full-stockout run per group.        *)
(*                                                                         *)
(* A data frame is a sequence of records; the field idx is the row's index *)
(* label (the RangeIndex given by read_sql), which pandas uses to align    *)
(* the run_id column with the rows.  oos_rate is a DECIMAL with four       *)
(* fractional digits, kept as an integer number of 1/10000; NaN stands for *)
(* SQL NULL.                                                               *)
(***************************************************************************)
EXTENDS Integers, Sequences, FiniteSets

\* ---------------------------------------------------------------- bounds
\* rows and days of a table of several groups
MaxRows == 3
MaxDate == 3
\* days of a one-group series
MaxSeriesDate == 6
\* rows of a table whose rates and threshold vary
MaxRateRows == 2
\* days of each group of a table that is saved and ranked
MaxMainDate == 3
\* rows of a table that is read in every row order
MaxOrderRows == 3
\* active products of a crawler run, and l2 ids the product API returns
MaxECodes == 2
MaxL2Ids == 3

\* ------------------------------------------------------------- constants
RateScale == 10000
\* rate_threshold=0.999
DefaultThreshold == 9990
NaN == -1

\* (store_name, e_code) pairs
GroupKeys == {<<1, 2>>, <<2, 1>>}
Dates == 1..MaxDate

\* (oos_cnt, total_cnt) sums of one day: nothing observed (rate NULL),
\* 0.9989, 0.9990, 0.9991
EmptyDay == <<0, 0>>
Counts == {EmptyDay, <<9989, 10000>>, <<9990, 10000>>, <<9991, 10000>>}
\* a day below and a day above the default threshold
FlagCounts == {EmptyDay, <<9991, 10000>>}
SeriesCounts == {<<9989, 10000>>, <<9991, 10000>>}

\* values of the rate_threshold parameter
Thresholds == {0, DefaultThreshold, 9991, RateScale}

\* head(20) of main and head(10) of the top-10 report
MainTopN == 20
VizTopN == 10
\* lengths of the ranked view: the two above and one shorter than a table of
\* two groups
TopNs == {1, VizTopN, MainTopN}

\* ------------------------------------------------- load_daily_store_product
\* SUM(oos_cnt) / NULLIF(SUM(total_cnt), 0): NULL for an empty day, else the
\* quotient rounded half up to four fractional digits
OosRate(oos_cnt, total_cnt) ==
  IF total_cnt = 0 THEN NaN
  ELSE (2 * oos_cnt * RateScale + total_cnt) \div (2 * total_cnt)

MkRow(i, store, ecode, dt, cnt) ==
  [idx |-> i, store_name |-> store, e_code |-> ecode, dt |-> dt,
   oos_cnt |-> cnt[1], total_cnt |-> cnt[2],
   oos_rate |-> OosRate(cnt[1], cnt[2])]


\* a table read_sql can return: rows f in the order given, index 0..n-1
MkTable(f) ==
  [i \in 1..Len(f) |-> MkRow(i - 1, f[i][1][1], f[i][1][2], f[i][2], f[i][3])]

\* one (store_name, e_code) series: the days D with counts c, delivered in
\* ascending or in descending date order
MkSeries(D, c, asc) ==
  [i \in 1..Cardinality(D) |->
     LET d == CHOOSE x \in D :
                Cardinality({y \in D : IF asc THEN y < x ELSE y > x}) = i - 1
     IN MkRow(i - 1, 1, 1, d, c[d])]

\* the table of the two groups: the series of <<1, 2>> with days D1 and counts
\* c1, then that of <<2, 1>>, in this order or with the rows reversed
MkMainTable(D1, c1, D2, c2, asc) ==
  LET Day(D, i) == CHOOSE x \in D : Cardinality({y \in D : y < x}) = i - 1
      n1 == Cardinality(D1)
      n == n1 + Cardinality(D2)
      At(i) == IF i <= n1 THEN <<<<1, 2>>, Day(D1, i), c1[Day(D1, i)]>>
               ELSE <<<<2, 1>>, Day(D2, i - n1), c2[Day(D2, i - n1)]>>
  IN MkTable([i \in 1..n |-> IF asc THEN At(i) ELSE At(n + 1 - i)])

VARIABLES pc, df_in, rate_threshold, df, runs, summary,
          csv_daily, csv_runs, csv_summary, ranked_from, top_n, top

\* the stock crawler: its position in main, the locals of main, the calls
\* it made to the database functions, the requests it sent, the outcome of
\* the last one and the number of store requests that failed
VARIABLES cpc, now, E_CODES, ei, l2_ids, li, ki, all_rows, calls,
          requested, l2_seen, last, failures

crawler == <<cpc, now, E_CODES, ei, l2_ids, li, ki, all_rows, calls,
             requested, l2_seen, last, failures>>

pipeline == <<pc, df_in, rate_threshold, df, runs, summary,
              csv_daily, csv_runs, csv_summary, ranked_from, top_n, top>>

vars == <<pipeline, crawler>>

outputs == <<csv_daily, csv_runs, csv_summary, ranked_from, top_n, top>>

\* ---------------------------------------------------- calc_full_oos_streaks
SameGroup(a, b) == a.store_name = b.store_name /\ a.e_code = b.e_code

FillNa0(rate) == IF rate = NaN THEN 0 ELSE rate

\* variant: strict comparison with the threshold
IsFullOosStrict(rate, threshold) == FillNa0(rate) > threshold

\* df["is_full_oos"] = df["oos_rate"].fillna(0) >= rate_threshold
IsFullOos(rate, threshold) == FillNa0(rate) >= threshold

\* variant: rows without a rate are dropped instead of filled
ClassifyDropNa(d, threshold) ==
  LET kept == SelectSeq(d, LAMBDA x : x.oos_rate # NaN)
  IN [i \in 1..Len(kept) |->
        [idx |-> kept[i].idx, store_name |-> kept[i].store_name,
         e_code |-> kept[i].e_code, dt |-> kept[i].dt,
         oos_cnt |-> kept[i].oos_cnt, total_cnt |-> kept[i].total_cnt,
         oos_rate |-> kept[i].oos_rate,
         is_full_oos |-> IsFullOos(kept[i].oos_rate, threshold)]]

Classify(d, threshold) ==
  [i \in 1..Len(d) |->
     [idx |-> d[i].idx, store_name |-> d[i].store_name, e_code |-> d[i].e_code,
      dt |-> d[i].dt, oos_cnt |-> d[i].oos_cnt, total_cnt |-> d[i].total_cnt,
      oos_rate |-> d[i].oos_rate,
      is_full_oos |-> IsFullOos(d[i].oos_rate, threshold)]]

\* stable sort of s, where lt[j, i] says that s[j] sorts before s[i]: the
\* element at position i goes after every element that sorts before it and
\* after the equal elements that precede it
StableSort(s, lt) ==
  LET Rank(i) == Cardinality({j \in 1..Len(s) :
                    lt[j, i] \/ (~lt[i, j] /\ j < i)})
  IN [p \in 1..Len(s) |-> s[CHOOSE i \in 1..Len(s) : Rank(i) = p - 1]]

\* variant: dt left out of the sort keys
LtGroupDtNoDate(a, b) ==
  \/ a.store_name < b.store_name
  \/ a.store_name = b.store_name /\ a.e_code < b.e_code

LtGroupDt(a, b) ==
  \/ a.store_name < b.store_name
  \/ a.store_name = b.store_name /\ a.e_code < b.e_code
  \/ a.store_name = b.store_name /\ a.e_code = b.e_code /\ a.dt < b.dt

\* variant: the frame is left in the order it was given
SortByGroupDtOmitted(d) == d

\* df.sort_values(["store_name", "e_code", "dt"])
SortByGroupDt(d) ==
  StableSort(d, [i, j \in 1..Len(d) |-> LtGroupDt(d[i], d[j])])

\* variant: a skipped calendar day also starts a run
IsChangeOnDateGap(d, i) ==
  LET prev == {j \in 1..(i - 1) : SameGroup(d[j], d[i])}
  IN \/ prev = {}
     \/ LET p == CHOOSE j \in prev : \A k \in prev : k <= j
        IN \/ d[p].is_full_oos # d[i].is_full_oos
           \/ d[i].dt > d[p].dt + 1

\* variant: compared with the previous row of the frame, whatever its group
IsChangeAcrossGroups(d, i) ==
  \/ i = 1
  \/ d[i - 1].is_full_oos # d[i].is_full_oos

\* s != s.shift(1) inside one group: true at the group's first row and at
\* every row whose flag differs from the group's previous row
IsChange(d, i) ==
  LET prev == {j \in 1..(i - 1) : SameGroup(d[j], d[i])}
  IN \/ prev = {}
     \/ LET p == CHOOSE j \in prev : \A k \in prev : k <= j
        IN d[p].is_full_oos # d[i].is_full_oos

\* variant: one cumsum over the whole frame
RunIdAtWholeFrame(d, i) ==
  Cardinality({j \in 1..i : IsChange(d, j)})

\* (s != s.shift(1)).cumsum() per group
RunIdAt(d, i) ==
  Cardinality({j \in 1..i : SameGroup(d[j], d[i]) /\ IsChange(d, j)})

WithRunId(d) ==
  [i \in 1..Len(d) |->
     [idx |-> d[i].idx, store_name |-> d[i].store_name, e_code |-> d[i].e_code,
      dt |-> d[i].dt, oos_cnt |-> d[i].oos_cnt, total_cnt |-> d[i].total_cnt,
      oos_rate |-> d[i].oos_rate, is_full_oos |-> d[i].is_full_oos,
      run_id |-> RunIdAt(d, i)]]

SetMin(S) == CHOOSE x \in S : \A y \in S : x <= y
SetMax(S) == CHOOSE x \in S : \A y \in S : y <= x

SameRun(a, b) == SameGroup(a, b) /\ a.run_id = b.run_id

LtRunKey(a, b) ==
  \/ a.store_name < b.store_name
  \/ a.store_name = b.store_name /\ a.e_code < b.e_code
  \/ a.store_name = b.store_name /\ a.e_code = b.e_code /\ a.run_id < b.run_id

\* variant: days counted as the calendar span of the run
AggRunCalendarSpan(d, i) ==
  LET members == {j \in 1..Len(d) : SameRun(d[j], d[i])}
      lo == SetMin({d[j].dt : j \in members})
      hi == SetMax({d[j].dt : j \in members})
  IN [store_name |-> d[i].store_name, e_code |-> d[i].e_code,
      run_id |-> d[i].run_id,
      is_full_oos |-> d[SetMin(members)].is_full_oos,
      start_dt |-> lo, end_dt |-> hi, days |-> hi - lo + 1]

\* one row of .agg(first, min, max, size) for the run that row i of d is in
AggRun(d, i) ==
  LET members == {j \in 1..Len(d) : SameRun(d[j], d[i])}
  IN [store_name |-> d[i].store_name, e_code |-> d[i].e_code,
      run_id |-> d[i].run_id,
      is_full_oos |-> d[SetMin(members)].is_full_oos,
      start_dt |-> SetMin({d[j].dt : j \in members}),
      end_dt |-> SetMax({d[j].dt : j \in members}),
      days |-> Cardinality(members)]

\* df.groupby(group_cols + ["run_id"], as_index=False).agg(...): one row per
\* key, keys in ascending order
CalcRuns(d) ==
  LET firsts == {i \in 1..Len(d) : \A j \in 1..(i - 1) : ~SameRun(d[j], d[i])}
      keyrows == [p \in 1..Cardinality(firsts) |->
                    AggRun(d, CHOOSE i \in firsts :
                                Cardinality({j \in firsts : j < i}) = p - 1)]
  IN StableSort(keyrows, [i, j \in 1..Len(keyrows) |->
                            LtRunKey(keyrows[i], keyrows[j])])

\* runs[runs["is_full_oos"]]
FullRuns(r) == SelectSeq(r, LAMBDA x : x.is_full_oos)

\* variant: days sorted ascending like the other keys
LtGroupDaysAsc(a, b) ==
  \/ a.store_name < b.store_name
  \/ a.store_name = b.store_name /\ a.e_code < b.e_code
  \/ a.store_name = b.store_name /\ a.e_code = b.e_code /\ a.days < b.days

LtGroupDaysDesc(a, b) ==
  \/ a.store_name < b.store_name
  \/ a.store_name = b.store_name /\ a.e_code < b.e_code
  \/ a.store_name = b.store_name /\ a.e_code = b.e_code /\ a.days > b.days

\* variant: a sort that puts the later of two equal rows first
SortFullRunsTiesReversed(fr) ==
  LET Rank(i) == Cardinality({j \in 1..Len(fr) :
                    \/ LtGroupDaysDesc(fr[j], fr[i])
                    \/ ~LtGroupDaysDesc(fr[i], fr[j]) /\ j > i})
  IN [p \in 1..Len(fr) |-> fr[CHOOSE i \in 1..Len(fr) : Rank(i) = p - 1]]

\* full_runs.sort_values([...], ascending=[True, True, False])
SortFullRuns(fr) ==
  StableSort(fr, [i, j \in 1..Len(fr) |-> LtGroupDaysDesc(fr[i], fr[j])])

\* variant: head(1) left out, every full-stockout run is kept
HeadOneOmitted(s) == [i \in 1..Len(s) |-> [row |-> s[i], first |-> TRUE]]

\* .groupby(group_cols, as_index=False).head(1): the first row of every group
HeadOne(s) ==
  SelectSeq([i \in 1..Len(s) |->
               [row |-> s[i],
                first |-> \A j \in 1..(i - 1) : ~SameGroup(s[j], s[i])]],
            LAMBDA x : x.first)

\* variant: the rows of the group are counted whatever their flag
TotalFullDaysAllRows(d, g) ==
  Cardinality({i \in 1..Len(d) : SameGroup(d[i], g)})

\* df[df["is_full_oos"]].groupby(group_cols).agg(size), looked up by the
\* left merge; a group without a match gets fillna 0
TotalFullDays(d, g) ==
  Cardinality({i \in 1..Len(d) : SameGroup(d[i], g) /\ d[i].is_full_oos})

\* variant: a row for every known group, zero for one without a full run
CalcSummaryAllGroups(d, r) ==
  LET best == HeadOne(SortFullRuns(FullRuns(r)))
      found == [i \in 1..Len(best) |->
        [store_name |-> best[i].row.store_name, e_code |-> best[i].row.e_code,
         max_streak_start_dt |-> best[i].row.start_dt,
         max_streak_end_dt |-> best[i].row.end_dt,
         max_full_oos_streak_days |-> best[i].row.days,
         total_full_oos_days |-> TotalFullDays(d, best[i].row)]]
      missing == {k \in GroupKeys : \A i \in 1..Len(found) :
                    <<found[i].store_name, found[i].e_code>> # k}
      KeyLt(a, b) == a[1] < b[1] \/ (a[1] = b[1] /\ a[2] < b[2])
      zeros == [i \in 1..Cardinality(missing) |->
        LET k == CHOOSE x \in missing :
                   Cardinality({y \in missing : KeyLt(y, x)}) = i - 1
        IN [store_name |-> k[1], e_code |-> k[2],
            max_streak_start_dt |-> NaN, max_streak_end_dt |-> NaN,
            max_full_oos_streak_days |-> 0, total_full_oos_days |-> 0]]
  IN found \o zeros

CalcSummary(d, r) ==
  LET best == HeadOne(SortFullRuns(FullRuns(r)))
  IN [i \in 1..Len(best) |->
        [store_name |-> best[i].row.store_name, e_code |-> best[i].row.e_code,
         max_streak_start_dt |-> best[i].row.start_dt,
         max_streak_end_dt |-> best[i].row.end_dt,
         max_full_oos_streak_days |-> best[i].row.days,
         total_full_oos_days |-> TotalFullDays(d, best[i].row)]]

\* variant: the flag column is written into the caller's frame
CallerFrameNoCopy(d, threshold) == Classify(d, threshold)

\* df = df.copy(): the columns are added to a copy, the frame the caller
\* passed stays as it was
CallerFrame(d, threshold) == d

CalcFullOosStreaks ==
  /\ pc = "loaded"
  /\ df' = WithRunId(SortByGroupDt(Classify(df_in, rate_threshold)))
  /\ runs' = CalcRuns(df')
  /\ summary' = CalcSummary(df', runs')
  /\ df_in' = CallerFrame(df_in, rate_threshold)
  /\ pc' = "done"
  /\ UNCHANGED <<rate_threshold, outputs, crawler>>

\* ------------------------------------------------------------ save_outputs
\* to_csv(index=False) of the detail table: the rows in order, without the
\* index
DailyToCsv(d) ==
  [i \in 1..Len(d) |->
     [store_name |-> d[i].store_name, e_code |-> d[i].e_code, dt |-> d[i].dt,
      oos_cnt |-> d[i].oos_cnt, total_cnt |-> d[i].total_cnt,
      oos_rate |-> d[i].oos_rate, is_full_oos |-> d[i].is_full_oos,
      run_id |-> d[i].run_id]]

SaveOutputs ==
  /\ pc = "done"
  /\ csv_daily' = DailyToCsv(df)
  /\ csv_runs' = runs
  /\ csv_summary' = summary
  /\ pc' = "saved"
  /\ UNCHANGED <<df_in, rate_threshold, df, runs, summary, ranked_from, top_n, top>>
  /\ UNCHANGED crawler

\* ------------------------------------------------------------- ranked view
\* variant: ascending order, the default of sort_values
LtRankAsc(a, b) ==
  \/ a.max_full_oos_streak_days < b.max_full_oos_streak_days
  \/ /\ a.max_full_oos_streak_days = b.max_full_oos_streak_days
     /\ a.total_full_oos_days < b.total_full_oos_days

\* ["max_full_oos_streak_days", "total_full_oos_days"], ascending=False
LtRank(a, b) ==
  \/ a.max_full_oos_streak_days > b.max_full_oos_streak_days
  \/ /\ a.max_full_oos_streak_days = b.max_full_oos_streak_days
     /\ a.total_full_oos_days > b.total_full_oos_days

SortRank(s) == StableSort(s, [i, j \in 1..Len(s) |-> LtRank(s[i], s[j])])

\* variant: the last n rows
HeadNLast(s, n) ==
  IF n >= Len(s) THEN s ELSE SubSeq(s, Len(s) - n + 1, Len(s))

\* .head(n)
HeadN(s, n) == IF n >= Len(s) THEN s ELSE SubSeq(s, 1, n)

\* summary.sort_values([...], ascending=False).head(n)
RankedTop(s, n) == HeadN(SortRank(s), n)

\* main, step 4: the ranked view of the summary table
MainTop ==
  /\ pc = "saved"
  /\ \E n \in TopNs :
       /\ top_n' = n
       /\ ranked_from' = summary
       /\ top' = RankedTop(summary, n)
  /\ pc' = "ranked"
  /\ UNCHANGED <<df_in, rate_threshold, df, runs, summary,
                 csv_daily, csv_runs, csv_summary>>
  /\ UNCHANGED crawler

\* pd.to_numeric(errors="coerce").fillna(0).astype(int)
ToInt(x) == IF x = NaN THEN 0 ELSE x

\* read_csv of the summary file, whose rows are in the order rows[p[1]],
\* rows[p[2]], ..., with the two day counts made integers
ReadSummaryCsv(rows, p) ==
  [i \in 1..Len(rows) |->
     [store_name |-> rows[p[i]].store_name, e_code |-> rows[p[i]].e_code,
      max_streak_start_dt |-> rows[p[i]].max_streak_start_dt,
      max_streak_end_dt |-> rows[p[i]].max_streak_end_dt,
      max_full_oos_streak_days |-> ToInt(rows[p[i]].max_full_oos_streak_days),
      total_full_oos_days |-> ToInt(rows[p[i]].total_full_oos_days)]]

Permutations(n) ==
  {p \in [1..n -> 1..n] : \A i, j \in 1..n : p[i] = p[j] => i = j}

\* the top-10 report: reads the summary file and ranks its rows
VizTop10 ==
  /\ pc = "saved"
  /\ \E n \in TopNs, p \in Permutations(Len(csv_summary)) :
       /\ top_n' = n
       /\ ranked_from' = ReadSummaryCsv(csv_summary, p)
       /\ top' = RankedTop(ranked_from', n)
  /\ pc' = "viz"
  /\ UNCHANGED <<df_in, rate_threshold, df, runs, summary,
                 csv_daily, csv_runs, csv_summary>>
  /\ UNCHANGED crawler

\* ------------------------------------------------------------ the crawler
\* l2_ids[:2]
L2Limit == 2

\* the moments datetime.now() can give
Times == {1, 2}

\* keywords of main: two of its five
Keywords == <<"gangnam", "yongsan">>

\* now.strftime("%Y-%m-%d %H:%M:%S")
CollectedAt(t) == <<"Y-m-d H:M:S", t>>

\* now.strftime("%Y%m%d%H%M%S")
RunId(t) == <<"YmdHMS", t>>

\* SCORE.get(status, 2)
StatusToScore(status) ==
  IF status = "OUT_OF_STOCK" THEN 0
  ELSE IF status = "LOW_STOCK" THEN 1
  ELSE 2

\* str(s.get("storeId", ""))
Str(x) == <<"str", x>>

\* what fetch_stores ends with: a request error, or the decoded response
\* with its list of stores
StoreResponses ==
  {[error |-> "RequestException", stores |-> <<>>],
   [error |-> "none", stores |-> <<>>],
   [error |-> "none",
    stores |-> <<[storeId |-> 7, stockStatus |-> "LOW_STOCK"]>>]}

\* variant: the request error is not caught
CaughtNothing(resp) == FALSE

\* except requests.exceptions.RequestException
Caught(resp) == resp.error = "RequestException"

\* the n distinct l2 ids fetch_l2_ids returns for product e
L2IdsOf(e, n) == [j \in 1..n |-> 10 * e + j]

\* l2_ids[:2]
Truncate(ids) ==
  SubSeq(ids, 1, IF Len(ids) < L2Limit THEN Len(ids) ELSE L2Limit)

\* the row main appends for one store of a response; store name and store
\* type are carried along like the store id and are left out
StockRow(t, e, l, kw, st) ==
  [collected_at |-> CollectedAt(t), run_id |-> RunId(t), e_code |-> e,
   l2_id |-> l, keyword |-> kw, store_id |-> Str(st.storeId),
   stock_status |-> st.stockStatus,
   stock_score |-> StatusToScore(st.stockStatus)]

\* where the loops of main go on after product i is done
AfterProduct(i, codes) ==
  IF i < Len(codes)
  THEN [cpc |-> "l2", ei |-> i + 1, li |-> 0, ki |-> 0]
  ELSE [cpc |-> "insert", ei |-> i, li |-> 0, ki |-> 0]

\* where the loops of main go on after the pair (l, k) of product i: the
\* next keyword, the next l2 id, the next product, or the insert
AfterPair(i, l, k, ids, codes) ==
  IF k < Len(Keywords) THEN [cpc |-> "stores", ei |-> i, li |-> l, ki |-> k + 1]
  ELSE IF l < Len(ids) THEN [cpc |-> "stores", ei |-> i, li |-> l + 1, ki |-> 1]
  ELSE AfterProduct(i, codes)

\* main up to the loops: the active products are read; with none, main returns
LoadActiveECodes ==
  /\ cpc = "start"
  /\ \E n \in 0..MaxECodes :
       /\ E_CODES' = [i \in 1..n |-> i]
       /\ IF n = 0
          THEN cpc' = "done" /\ ei' = ei
          ELSE cpc' = "l2" /\ ei' = 1
  /\ UNCHANGED <<now, l2_ids, li, ki, all_rows, calls, requested, l2_seen, last,
                 failures>>
  /\ UNCHANGED pipeline

\* l2_ids = fetch_l2_ids(e_code)[:2]; a request error of fetch_l2_ids is
\* not caught in main and ends the run
FetchL2Ids ==
  /\ cpc = "l2"
  /\ \/ /\ cpc' = "raised"
        /\ last' = "fetch_l2_ids raised"
        /\ UNCHANGED <<ei, l2_ids, li, ki, l2_seen>>
     \/ \E n \in 0..MaxL2Ids :
          LET ids == Truncate(L2IdsOf(E_CODES[ei], n))
              nxt == IF ids = <<>>
                     THEN AfterProduct(ei, E_CODES)
                     ELSE [cpc |-> "stores", ei |-> ei, li |-> 1, ki |-> 1]
          IN /\ l2_ids' = ids
             /\ l2_seen' = Append(l2_seen, ids)
             /\ cpc' = nxt.cpc
             /\ ei' = nxt.ei
             /\ li' = nxt.li
             /\ ki' = nxt.ki
             /\ last' = "l2 ids"
  /\ UNCHANGED <<now, E_CODES, all_rows, calls, requested, failures>>
  /\ UNCHANGED pipeline

\* one pass of the keyword loop: the request, the except branch, the
\* no-stores branch and the rows appended for the stores
FetchStores ==
  /\ cpc = "stores"
  /\ \E resp \in StoreResponses :
       LET e == E_CODES[ei]
           l == l2_ids[li]
           kw == Keywords[ki]
           nxt == AfterPair(ei, li, ki, l2_ids, E_CODES)
       IN /\ requested' = Append(requested, <<e, l, kw>>)
          /\ failures' = IF resp.error # "none" THEN failures + 1 ELSE failures
          /\ IF resp.error # "none" /\ ~Caught(resp)
             THEN /\ cpc' = "raised"
                  /\ last' = "fetch_stores raised"
                  /\ UNCHANGED <<ei, li, ki, all_rows>>
             ELSE /\ cpc' = nxt.cpc
                  /\ ei' = nxt.ei
                  /\ li' = nxt.li
                  /\ ki' = nxt.ki
                  /\ IF resp.error # "none"
                     THEN all_rows' = all_rows /\ last' = "failed"
                     ELSE IF resp.stores = <<>>
                     THEN all_rows' = all_rows /\ last' = "no stores"
                     ELSE /\ all_rows' = all_rows \o
                               [j \in 1..Len(resp.stores) |->
                                  StockRow(now, e, l, kw, resp.stores[j])]
                          /\ last' = "rows"
  /\ UNCHANGED <<now, E_CODES, l2_ids, calls, l2_seen>>
  /\ UNCHANGED pipeline

\* insert_rows(all_rows): with no rows it returns 0 without a connection
InsertRows ==
  /\ cpc = "insert"
  /\ calls' = Append(calls, [fn |-> "insert_rows", arg |-> all_rows,
                             wrote |-> all_rows # <<>>])
  /\ cpc' = "upsert"
  /\ UNCHANGED <<now, E_CODES, ei, l2_ids, li, ki, all_rows, requested, l2_seen,
                 last, failures>>
  /\ UNCHANGED pipeline

\* upsert_run_best(run_id)
UpsertRunBest ==
  /\ cpc = "upsert"
  /\ calls' = Append(calls, [fn |-> "upsert_run_best", arg |-> RunId(now),
                             wrote |-> TRUE])
  /\ cpc' = "done"
  /\ UNCHANGED <<now, E_CODES, ei, l2_ids, li, ki, all_rows, requested, l2_seen,
                 last, failures>>
  /\ UNCHANGED pipeline

\* the crawler is not running
CrawlerOff ==
  /\ cpc = "off"
  /\ now = 0
  /\ E_CODES = <<>>
  /\ ei = 0
  /\ l2_ids = <<>>
  /\ li = 0
  /\ ki = 0
  /\ all_rows = <<>>
  /\ calls = <<>>
  /\ requested = <<>>
  /\ l2_seen = <<>>
  /\ last = "none"
  /\ failures = 0

\* ------------------------------------------------------- initial states
StartState ==
  /\ CrawlerOff
  /\ pc = "loaded"
  /\ df = <<>>
  /\ runs = <<>>
  /\ summary = <<>>
  /\ csv_daily = <<>>
  /\ csv_runs = <<>>
  /\ csv_summary = <<>>
  /\ ranked_from = <<>>
  /\ top_n = 0
  /\ top = <<>>

\* main: the table of several groups, in any row order, with duplicates of a
\* (group, day) allowed, and the threshold main passes
Init ==
  /\ StartState
  /\ \E n \in 0..MaxRows :
       \E f \in [1..n -> GroupKeys \X Dates \X FlagCounts] : df_in = MkTable(f)
  /\ rate_threshold = DefaultThreshold

\* the days of the tables that are read in every row order
OrderDates == {1, 2, 4}

\* tables with at most one row per group and day, in every row order
InitOrder ==
  /\ StartState
  /\ \E n \in 0..MaxOrderRows :
       \E f \in [1..n -> GroupKeys \X OrderDates \X FlagCounts] :
         /\ \A i, j \in 1..n :
              i # j => <<f[i][1], f[i][2]>> # <<f[j][1], f[j][2]>>
         /\ df_in = MkTable(f)
  /\ rate_threshold = DefaultThreshold

\* one group's series without duplicate days
InitSeries ==
  /\ StartState
  /\ \E D \in SUBSET (1..MaxSeriesDate) :
       \E c \in [D -> SeriesCounts] :
         \E asc \in BOOLEAN : df_in = MkSeries(D, c, asc)
  /\ rate_threshold = DefaultThreshold

\* every rate against every threshold
InitRates ==
  /\ StartState
  /\ \E n \in 0..MaxRateRows :
       \E f \in [1..n -> {<<1, 1>>} \X {1} \X Counts] : df_in = MkTable(f)
  /\ rate_threshold \in Thresholds

\* the two groups' series, saved and ranked
InitMain ==
  /\ StartState
  /\ \E D1, D2 \in SUBSET (1..MaxMainDate) :
       \E c1 \in [D1 -> FlagCounts], c2 \in [D2 -> FlagCounts] :
         \E asc \in BOOLEAN : df_in = MkMainTable(D1, c1, D2, c2, asc)
  /\ rate_threshold = DefaultThreshold

Next == CalcFullOosStreaks

NextMain ==
  \/ CalcFullOosStreaks
  \/ SaveOutputs
  \/ MainTop
  \/ VizTop10

Spec == Init /\ [][Next]_vars

SpecSeries == InitSeries /\ [][Next]_vars

SpecOrder == InitOrder /\ [][Next]_vars

SpecRates == InitRates /\ [][Next]_vars

SpecMain == InitMain /\ [][NextMain]_vars

\* a crawler run at its first line
InitCrawl ==
  /\ pc = "off"
  /\ df_in = <<>>
  /\ rate_threshold = DefaultThreshold
  /\ df = <<>>
  /\ runs = <<>>
  /\ summary = <<>>
  /\ csv_daily = <<>>
  /\ csv_runs = <<>>
  /\ csv_summary = <<>>
  /\ ranked_from = <<>>
  /\ top_n = 0
  /\ top = <<>>
  /\ cpc = "start"
  /\ now \in Times
  /\ E_CODES = <<>>
  /\ ei = 0
  /\ l2_ids = <<>>
  /\ li = 0
  /\ ki = 0
  /\ all_rows = <<>>
  /\ calls = <<>>
  /\ requested = <<>>
  /\ l2_seen = <<>>
  /\ last = "none"
  /\ failures = 0

NextCrawl ==
  \/ LoadActiveECodes
  \/ FetchL2Ids
  \/ FetchStores
  \/ InsertRows
  \/ UpsertRunBest

SpecCrawl == InitCrawl /\ [][NextCrawl]_vars

TypeOK ==
  /\ pc \in {"off", "loaded", "done", "saved", "ranked", "viz"}
  /\ cpc \in {"off", "start", "l2", "stores", "insert", "upsert", "done", "raised"}
  /\ Len(df) \in {0, Len(df_in)}
\* ------------------------------------------------------------ properties
Done == pc # "loaded"

GroupOf(r) == <<r.store_name, r.e_code>>

\* positions of the rows of group g in the table t
RowsOf(t, g) == {i \in 1..Len(t) : GroupOf(t[i]) = g}

GroupsIn(t) == {GroupOf(t[i]) : i \in 1..Len(t)}

\* the input row a row of the detail table was made from
Origin(r) == df_in[r.idx + 1]

\* C1: every row with a defined oos_rate is flagged exactly when its rate
\* is at least the threshold; with threshold 0.999 a rate 0.9991 is flagged
\* and a rate 0.9989 is not
C1_FlagIffRateAtLeastThreshold ==
  Done =>
    /\ Len(df) = Len(df_in)
    /\ \A i \in 1..Len(df) :
         Origin(df[i]).oos_rate # NaN =>
           (df[i].is_full_oos <=> Origin(df[i]).oos_rate >= rate_threshold)
    /\ rate_threshold = 9990 =>
         \A i \in 1..Len(df) :
           /\ Origin(df[i]).oos_rate = 9991 => df[i].is_full_oos
           /\ Origin(df[i]).oos_rate = 9989 => ~df[i].is_full_oos

C1_Witness ==
  /\ Done
  /\ rate_threshold = 9990
  /\ \E i, j \in 1..Len(df) :
       /\ df[i].oos_rate = 9991 /\ df[i].is_full_oos
       /\ df[j].oos_rate = 9989 /\ ~df[j].is_full_oos

\* C2: a row whose oos_rate is undefined (total_cnt = 0) is never flagged,
\* whatever the threshold
C2_NullRateNeverFlagged ==
  Done =>
    \A i \in 1..Len(df) :
      Origin(df[i]).total_cnt = 0 => ~df[i].is_full_oos

\* a group's input rows are not in strictly increasing date order
OrderingViolated(g) ==
  \E i, j \in RowsOf(df_in, g) : i < j /\ df_in[i].dt >= df_in[j].dt

HasDuplicateDate(g) ==
  \E i, j \in RowsOf(df_in, g) : i < j /\ df_in[i].dt = df_in[j].dt

HasOutOfOrderDate(g) ==
  \E i, j \in RowsOf(df_in, g) : i < j /\ df_in[i].dt > df_in[j].dt

RECURSIVE SumDays(_, _)
\* sum of days over the rows I of the run table r
SumDays(r, I) ==
  IF I = {} THEN 0
  ELSE LET i == CHOOSE x \in I : TRUE IN r[i].days + SumDays(r, I \ {i})

\* C3 as stated: a group with a duplicate or out-of-order date is rejected,
\* so no run is produced from its records
C3_OrderingErrorRaised ==
  Done => \A g \in GroupsIn(df_in) : OrderingViolated(g) => RowsOf(runs, g) = {}

\* C3 amended: such a group is segmented like any other: its rows are put
\* in non-decreasing date order, rows given earlier staying first among
\* equal dates, and every one of them is counted in a run
C3_UnorderedGroupIsSortedAndSegmented ==
  Done =>
    \A g \in GroupsIn(df_in) :
      OrderingViolated(g) =>
        /\ RowsOf(runs, g) # {}
        /\ SumDays(runs, RowsOf(runs, g)) = Cardinality(RowsOf(df_in, g))
        /\ \A i, j \in RowsOf(df, g) :
             i < j => \/ df[i].dt < df[j].dt
                      \/ df[i].dt = df[j].dt /\ df[i].idx < df[j].idx

C3_Witness ==
  /\ Done
  /\ \E g \in GroupsIn(df_in) :
       /\ HasDuplicateDate(g)
       /\ HasOutOfOrderDate(g)
       /\ SumDays(runs, RowsOf(runs, g)) = 3

\* the detail table holds every input row once
SameRecords ==
  /\ Len(df) = Len(df_in)
  /\ \A k \in 1..Len(df_in) : \E i \in 1..Len(df) : df[i].idx = df_in[k].idx
  /\ \A i \in 1..Len(df) :
       /\ df[i].idx + 1 \in 1..Len(df_in)
       /\ GroupOf(df[i]) = GroupOf(Origin(df[i]))
       /\ df[i].dt = Origin(df[i]).dt

\* the rows of a group in the detail table are in date order
DateOrdered(g) ==
  \A i, j \in RowsOf(df, g) : i < j => df[i].dt <= df[j].dt

\* positions in the detail table of the records of the run table's row k
Members(k) ==
  {i \in RowsOf(df, GroupOf(runs[k])) : df[i].run_id = runs[k].run_id}

\* C4: the runs of a group partition its date-ordered records: each record
\* is in exactly one run, each run is a contiguous block, and the run
\* lengths add up to the number of records
C4_RunsPartitionGroup ==
  Done =>
    /\ SameRecords
    /\ \A g \in GroupsIn(df_in) :
         /\ DateOrdered(g)
         /\ \A i \in RowsOf(df, g) :
              Cardinality({k \in RowsOf(runs, g) : i \in Members(k)}) = 1
         /\ \A k \in RowsOf(runs, g) :
              /\ Members(k) # {}
              /\ \A i, j \in Members(k) :
                   \A m \in RowsOf(df, g) : i < m /\ m < j => m \in Members(k)
              /\ runs[k].days = Cardinality(Members(k))
         /\ SumDays(runs, RowsOf(runs, g)) = Cardinality(RowsOf(df_in, g))
    /\ \A k \in 1..Len(runs) : GroupOf(runs[k]) \in GroupsIn(df_in)

C4_Witness ==
  /\ Done
  /\ \E g \in GroupsIn(df_in) :
       /\ Cardinality(RowsOf(runs, g)) = 2
       /\ Cardinality(RowsOf(df_in, g)) = 3
       /\ \E i, j \in RowsOf(df_in, g) : df_in[j].dt > df_in[i].dt + 1

\* position of the record before row i in i's group, 0 for the first one
PrevInGroup(i) ==
  LET before == {j \in RowsOf(df, GroupOf(df[i])) : j < i}
  IN IF before = {} THEN 0 ELSE SetMax(before)

\* C5: a run starts at the first record of a group and at each record whose
\* flag differs from the previous record's, and nowhere else; consecutive
\* runs of a group have opposite flags; a group of N records all flagged
\* has one run, max_full_oos_streak_days = N and total_full_oos_days = N
C5_RunStartsExactlyAtFlagChange ==
  Done =>
    /\ \A i \in 1..Len(df) :
         LET p == PrevInGroup(i)
         IN IF p = 0 THEN df[i].run_id = 1
            ELSE IF df[p].is_full_oos # df[i].is_full_oos
                 THEN df[i].run_id = df[p].run_id + 1
                 ELSE df[i].run_id = df[p].run_id
    /\ \A k, m \in 1..Len(runs) :
         GroupOf(runs[k]) = GroupOf(runs[m]) /\ runs[m].run_id = runs[k].run_id + 1
           => runs[m].is_full_oos # runs[k].is_full_oos
    /\ \A g \in GroupsIn(df_in) :
         (\A i \in RowsOf(df, g) : df[i].is_full_oos) =>
           LET n == Cardinality(RowsOf(df_in, g))
           IN /\ Cardinality(RowsOf(runs, g)) = 1
              /\ \A k \in RowsOf(runs, g) : runs[k].days = n
              /\ Cardinality(RowsOf(summary, g)) = 1
              /\ \A k \in RowsOf(summary, g) :
                   /\ summary[k].max_full_oos_streak_days = n
                   /\ summary[k].total_full_oos_days = n

C5_Witness ==
  /\ Done
  /\ \E g, h \in GroupsIn(df_in) :
       /\ g # h
       /\ Cardinality(RowsOf(df_in, g)) = 2
       /\ \A i \in RowsOf(df, g) : df[i].is_full_oos
       /\ \A i \in RowsOf(df, h) : df[i].is_full_oos
       /\ \E k \in RowsOf(summary, g) : summary[k].max_full_oos_streak_days = 2

\* C6: a run's flag is the flag of all its records, its start_dt and end_dt
\* are the dates of its first and last record, its days their number
C6_RunFieldsDescribeItsRecords ==
  Done =>
    \A k \in 1..Len(runs) :
      /\ Members(k) # {}
      /\ \A i \in Members(k) : df[i].is_full_oos = runs[k].is_full_oos
      /\ runs[k].start_dt = df[SetMin(Members(k))].dt
      /\ runs[k].end_dt = df[SetMax(Members(k))].dt
      /\ runs[k].days = Cardinality(Members(k))

C6_Witness ==
  /\ Done
  /\ \E k \in 1..Len(runs) :
       /\ runs[k].is_full_oos
       /\ runs[k].days = 2
       /\ runs[k].start_dt < runs[k].end_dt
       /\ \E i, j \in RowsOf(df_in, GroupOf(runs[k])) :
            i < j /\ df_in[i].dt > df_in[j].dt
\* the dates of the input and the input dates whose rate meets the threshold
InputDates == {df_in[i].dt : i \in 1..Len(df_in)}

FullDates ==
  {df_in[i].dt : i \in {j \in 1..Len(df_in) :
                          df_in[j].oos_rate # NaN /\ df_in[j].oos_rate >= rate_threshold}}

\* C7: a missing calendar day does not break a run: records that follow one
\* another in their group with the same flag are in the same run even when
\* days lie between them; days 1, 2, 4, 5 all flagged give one run of
\* length 4 from day 1 to day 5
C7_DateGapDoesNotBreakRun ==
  Done =>
    /\ \A i \in 1..Len(df) :
         LET p == PrevInGroup(i)
         IN p # 0 /\ df[p].is_full_oos = df[i].is_full_oos /\ df[i].dt > df[p].dt + 1
              => \E k \in 1..Len(runs) : {p, i} \subseteq Members(k)
    /\ InputDates = {1, 2, 4, 5} /\ FullDates = InputDates =>
         /\ Len(runs) = 1
         /\ runs[1].is_full_oos
         /\ runs[1].days = 4
         /\ runs[1].start_dt = 1
         /\ runs[1].end_dt = 5

C7_Witness ==
  /\ Done
  /\ InputDates = {1, 2, 4, 5}
  /\ FullDates = InputDates
  /\ Len(runs) = 1
  /\ runs[1].days = 4

\* the rows of the run table that are full-stockout runs of group g
TrueRunsOf(g) == {k \in RowsOf(runs, g) : runs[k].is_full_oos}

\* C8: for a group with a full-stockout run, max_full_oos_streak_days is
\* the greatest length of its full-stockout runs and the streak bounds are
\* the start and end of a full-stockout run of that length; flags
\* T,T,F,T,T,T give runs (T,2),(F,1),(T,3), maximum 3 and total 5
C8_MaxStreakIsLongestTrueRun ==
  Done =>
    /\ \A g \in GroupsIn(df_in) :
         TrueRunsOf(g) # {} =>
           /\ Cardinality(RowsOf(summary, g)) = 1
           /\ \A s \in RowsOf(summary, g) :
                /\ \A k \in TrueRunsOf(g) :
                     runs[k].days <= summary[s].max_full_oos_streak_days
                /\ \E k \in TrueRunsOf(g) :
                     /\ runs[k].days = summary[s].max_full_oos_streak_days
                     /\ runs[k].start_dt = summary[s].max_streak_start_dt
                     /\ runs[k].end_dt = summary[s].max_streak_end_dt
    /\ InputDates = 1..6 /\ FullDates = {1, 2, 4, 5, 6} =>
         /\ Len(runs) = 3
         /\ <<runs[1].is_full_oos, runs[1].days>> = <<TRUE, 2>>
         /\ <<runs[2].is_full_oos, runs[2].days>> = <<FALSE, 1>>
         /\ <<runs[3].is_full_oos, runs[3].days>> = <<TRUE, 3>>
         /\ Len(summary) = 1
         /\ summary[1].max_full_oos_streak_days = 3
         /\ summary[1].total_full_oos_days = 5

C8_Witness ==
  /\ Done
  /\ InputDates = 1..6
  /\ FullDates = {1, 2, 4, 5, 6}
  /\ Len(summary) = 1
  /\ summary[1].max_full_oos_streak_days = 3
  /\ summary[1].max_streak_start_dt = 4

\* C9: when several full-stockout runs of a group share the greatest
\* length, the streak bounds are those of the one that starts first,
\* whatever the order of the input rows
C9_TieGoesToEarliestRun ==
  Done =>
    \A g \in GroupsIn(df_in) :
      \A s \in RowsOf(summary, g) :
        LET longest == {k \in TrueRunsOf(g) :
                          \A m \in TrueRunsOf(g) : runs[m].days <= runs[k].days}
        IN /\ longest # {}
           /\ \E k \in longest :
                /\ \A m \in longest : runs[k].start_dt <= runs[m].start_dt
                /\ summary[s].max_streak_start_dt = runs[k].start_dt
                /\ summary[s].max_streak_end_dt = runs[k].end_dt

C9_Witness ==
  /\ Done
  /\ Len(df_in) >= 2
  /\ df_in[1].dt > df_in[2].dt
  /\ \E k, m \in TrueRunsOf(<<1, 1>>) :
       /\ k # m
       /\ runs[k].days = 2
       /\ runs[m].days = 2
       /\ runs[k].start_dt < runs[m].start_dt
       /\ Len(summary) = 1
       /\ summary[1].max_full_oos_streak_days = 2
       /\ summary[1].max_streak_start_dt = runs[k].start_dt

\* C10: total_full_oos_days of a summary row is the sum of the lengths of
\* the group's full-stockout runs, which is the number of the group's
\* records that are flagged
C10_TotalIsSumOfTrueRunLengths ==
  Done =>
    \A s \in 1..Len(summary) :
      LET g == GroupOf(summary[s])
      IN /\ summary[s].total_full_oos_days = SumDays(runs, TrueRunsOf(g))
         /\ summary[s].total_full_oos_days =
              Cardinality({i \in RowsOf(df, g) : df[i].is_full_oos})

C10_Witness ==
  /\ Done
  /\ \E s \in 1..Len(summary) :
       /\ summary[s].total_full_oos_days = 2
       /\ summary[s].max_full_oos_streak_days = 1
       /\ Cardinality(RowsOf(df_in, GroupOf(summary[s]))) = 3
\* C11: a group that has input rows but no full-stockout run has a summary
\* row with max_full_oos_streak_days = 0 and total_full_oos_days = 0
C11_GroupWithoutTrueRunKeptWithZeros ==
  Done =>
    \A g \in GroupsIn(df_in) :
      TrueRunsOf(g) = {} =>
        \E s \in RowsOf(summary, g) :
          /\ summary[s].max_full_oos_streak_days = 0
          /\ summary[s].total_full_oos_days = 0

\* C12: every group key in the detail table, the run table or the summary
\* table is the key of an input row
C12_OutputGroupsComeFromInput ==
  Done =>
    /\ GroupsIn(df) \subseteq GroupsIn(df_in)
    /\ GroupsIn(runs) \subseteq GroupsIn(df_in)
    /\ GroupsIn(summary) \subseteq GroupsIn(df_in)

C12_Witness ==
  /\ Done
  /\ GroupsIn(df_in) = {<<2, 1>>}
  /\ Len(df) = 3
  /\ Len(runs) = 2
  /\ GroupsIn(summary) = {<<2, 1>>}
\* a ranked view has been produced, by main or by the top-10 report
Ranked == pc \in {"ranked", "viz"}

SameMetrics(a, b) ==
  /\ a.max_full_oos_streak_days = b.max_full_oos_streak_days
  /\ a.total_full_oos_days = b.total_full_oos_days

\* C13: in the ranked view a row listed before another has at least its
\* max_full_oos_streak_days and, when these are equal, at least its
\* total_full_oos_days
C13_RankedByMaxThenTotalDescending ==
  Ranked =>
    \A i, j \in 1..Len(top) :
      i < j =>
        /\ top[i].max_full_oos_streak_days >= top[j].max_full_oos_streak_days
        /\ top[i].max_full_oos_streak_days = top[j].max_full_oos_streak_days
             => top[i].total_full_oos_days >= top[j].total_full_oos_days

C13_Witness ==
  /\ pc = "ranked"
  /\ Len(top) = 2
  /\ Len(ranked_from) = 2
  /\ top[1].max_full_oos_streak_days = top[2].max_full_oos_streak_days
  /\ top[1].total_full_oos_days > top[2].total_full_oos_days
  /\ top[1] = ranked_from[2]

\* C14: two rows of the ranked view that tie on both day counts are in
\* ascending (store_name, e_code) order, whatever the order of the rows
\* that were ranked
C14_TiesOrderedByGroupKey ==
  Ranked =>
    \A i, j \in 1..Len(top) :
      i < j /\ SameMetrics(top[i], top[j]) =>
        \/ top[i].store_name < top[j].store_name
        \/ top[i].store_name = top[j].store_name /\ top[i].e_code < top[j].e_code

\* C15: the ranked view has min(N, number of rows ranked) rows and is the
\* beginning of the full ranking; with fewer rows than N all are returned
C15_TopIsFirstRowsOfRanking ==
  Ranked =>
    /\ Len(top) = IF top_n < Len(ranked_from) THEN top_n ELSE Len(ranked_from)
    /\ \A i \in 1..Len(top) : \E k \in 1..Len(ranked_from) : top[i] = ranked_from[k]
    /\ \A i, j \in 1..Len(top) : i # j => top[i] # top[j]
    /\ \A k \in 1..Len(ranked_from) :
         (\A i \in 1..Len(top) : top[i] # ranked_from[k]) =>
           \A i \in 1..Len(top) : ~LtRank(ranked_from[k], top[i])
    /\ top = SubSeq(SortRank(ranked_from), 1, Len(top))
    /\ top_n >= Len(ranked_from) =>
         \A k \in 1..Len(ranked_from) : \E i \in 1..Len(top) : top[i] = ranked_from[k]

C15_Witness ==
  /\ pc = "ranked"
  /\ top_n = 1
  /\ Len(ranked_from) = 2
  /\ Len(top) = 1
  /\ top[1] = ranked_from[2]
  /\ LtRank(ranked_from[2], ranked_from[1])
\* C16: with no input rows the detail table, the run table, the summary
\* table, the saved files and the ranked view are all empty
C16_EmptyInputGivesEmptyOutputs ==
  df_in = <<>> =>
    /\ df = <<>>
    /\ runs = <<>>
    /\ summary = <<>>
    /\ csv_daily = <<>>
    /\ csv_runs = <<>>
    /\ csv_summary = <<>>
    /\ top = <<>>

C16_Witness ==
  /\ pc = "ranked"
  /\ df_in = <<>>
  /\ runs = <<>>
  /\ csv_summary = <<>>
  /\ top = <<>>

\* the rows of the table t that belong to group g, in their order
Restrict(t, g) == SelectSeq(t, LAMBDA x : GroupOf(x) = g)

\* C18: what is computed for a group on the whole input is what is computed
\* on the input restricted to the group's rows: the same flags and run
\* numbers, the same runs and the same summary
C18_GroupsAreIndependent ==
  pc = "done" =>
    \A g \in GroupsIn(df_in) :
      LET alone == WithRunId(SortByGroupDt(Classify(Restrict(df_in, g), rate_threshold)))
      IN /\ Restrict(df, g) = alone
         /\ Restrict(runs, g) = CalcRuns(alone)
         /\ Restrict(summary, g) = CalcSummary(alone, CalcRuns(alone))

C18_Witness ==
  /\ pc = "done"
  /\ Cardinality(RowsOf(df_in, <<1, 2>>)) = 2
  /\ Cardinality(RowsOf(df_in, <<2, 1>>)) = 3
  /\ Cardinality(RowsOf(runs, <<2, 1>>)) = 3
  /\ Len(summary) = 2
  /\ df_in[1].store_name = 2

\* the number of rows of t that carry the data of the input row r
CountLike(t, r) ==
  Cardinality({i \in 1..Len(t) :
    /\ t[i].store_name = r.store_name
    /\ t[i].e_code = r.e_code
    /\ t[i].dt = r.dt
    /\ t[i].oos_cnt = r.oos_cnt
    /\ t[i].total_cnt = r.total_cnt
    /\ t[i].oos_rate = r.oos_rate})

\* C19: the saved per-day detail holds every input row exactly once, with
\* its date, group key, counts and rate unchanged, and the flag with it
C19_DetailKeepsEveryInputRow ==
  pc \in {"saved", "ranked", "viz"} =>
    /\ Len(csv_daily) = Len(df_in)
    /\ \A k \in 1..Len(df_in) :
         CountLike(csv_daily, df_in[k]) = CountLike(df_in, df_in[k])
    /\ \A i \in 1..Len(csv_daily) :
         csv_daily[i].is_full_oos \in BOOLEAN

C19_Witness ==
  /\ pc = "saved"
  /\ Len(csv_daily) = 4
  /\ \E i, j \in 1..4 :
       /\ csv_daily[i].oos_rate = NaN
       /\ ~csv_daily[i].is_full_oos
       /\ csv_daily[j].is_full_oos
  /\ df_in[1].store_name = 2

EmitRun(st) ==
  [store_name |-> st.group[1], e_code |-> st.group[2],
   is_full_oos |-> st.currentFlag, start_dt |-> st.runStart,
   end_dt |-> st.runEnd, days |-> st.runLength]

\* the state after a record that opens a run
OpenRun(r) ==
  [open |-> TRUE, group |-> GroupOf(r), currentFlag |-> r.is_full_oos,
   runStart |-> r.dt, runEnd |-> r.dt, runLength |-> 1]

NoRun ==
  [open |-> FALSE, group |-> <<0, 0>>, currentFlag |-> FALSE,
   runStart |-> 0, runEnd |-> 0, runLength |-> 0]

RECURSIVE ScanFrom(_, _, _, _)
\* one linear scan of the sorted records t from position i on, in state st,
\* with the runs out emitted so far: a run is emitted when the flag
\* changes, when the group key changes and at the end of the input
ScanFrom(t, i, st, out) ==
  IF i > Len(t) THEN (IF st.open THEN Append(out, EmitRun(st)) ELSE out)
  ELSE IF ~st.open THEN ScanFrom(t, i + 1, OpenRun(t[i]), out)
  ELSE IF GroupOf(t[i]) # st.group \/ t[i].is_full_oos # st.currentFlag
       THEN ScanFrom(t, i + 1, OpenRun(t[i]), Append(out, EmitRun(st)))
  ELSE ScanFrom(t, i + 1,
                [st EXCEPT !.runEnd = t[i].dt, !.runLength = st.runLength + 1],
                out)

ScanRuns(t) == ScanFrom(t, 1, NoRun, <<>>)

\* the run table without the run numbers
RunsWithoutId(r) ==
  [k \in 1..Len(r) |->
     [store_name |-> r[k].store_name, e_code |-> r[k].e_code,
      is_full_oos |-> r[k].is_full_oos, start_dt |-> r[k].start_dt,
      end_dt |-> r[k].end_dt, days |-> r[k].days]]

\* no two input rows have the same group and date
UniqueKeys ==
  \A i, j \in 1..Len(df_in) :
    i # j => GroupOf(df_in[i]) # GroupOf(df_in[j]) \/ df_in[i].dt # df_in[j].dt

\* C21: for an input with at most one row per group and date, the scan
\* over the records sorted by group and date emits the run table that the
\* run numbering and grouping produce
C21_ScanEmitsTheRunTable ==
  pc = "done" /\ UniqueKeys => ScanRuns(df) = RunsWithoutId(runs)

C21_Witness ==
  /\ pc = "done"
  /\ UniqueKeys
  /\ Len(runs) = 4
  /\ \E k \in 1..3 :
       /\ runs[k].is_full_oos = runs[k + 1].is_full_oos
       /\ GroupOf(runs[k]) # GroupOf(runs[k + 1])
  /\ \E k \in 1..4 : runs[k].days = 2 /\ runs[k].end_dt = runs[k].start_dt + 2
  /\ df_in[1].store_name = 2
\* the input rows in the order p, as read_sql would deliver them
Reordered(t, p) ==
  [i \in 1..Len(t) |-> [t[p[i]] EXCEPT !.idx = i - 1]]

\* C22: for an input with at most one row per group and date, every
\* reordering of the input rows gives the same run table and the same
\* summary table
C22_RowOrderDoesNotMatter ==
  pc = "done" /\ UniqueKeys =>
    \A p \in Permutations(Len(df_in)) :
      LET d == WithRunId(SortByGroupDt(Classify(Reordered(df_in, p), rate_threshold)))
      IN /\ CalcRuns(d) = runs
         /\ CalcSummary(d, CalcRuns(d)) = summary

C22_Witness ==
  /\ pc = "done"
  /\ UniqueKeys
  /\ Len(df_in) = 3
  /\ df_in[1].dt > df_in[2].dt
  /\ GroupOf(df_in[1]) = GroupOf(df_in[2])
  /\ GroupOf(df_in[3]) = GroupOf(df_in[2])
  /\ Len(runs) = 2
  /\ Len(summary) = 1

\* C23: in every summary row the longest streak is at least one day and at
\* most the total of full-stockout days, the total is at most the number of
\* the group's input rows, and the two are equal exactly when the group has
\* a single full-stockout run
C23_SummaryCountsAreBounded ==
  Done =>
    \A s \in 1..Len(summary) :
      LET g == GroupOf(summary[s])
      IN /\ 1 <= summary[s].max_full_oos_streak_days
         /\ summary[s].max_full_oos_streak_days <= summary[s].total_full_oos_days
         /\ summary[s].total_full_oos_days <= Cardinality(RowsOf(df_in, g))
         /\ summary[s].max_full_oos_streak_days = summary[s].total_full_oos_days
              <=> Cardinality(TrueRunsOf(g)) = 1

C23_Witness ==
  /\ Done
  /\ Len(summary) = 1
  /\ summary[1].max_full_oos_streak_days = 2
  /\ summary[1].total_full_oos_days = 3
  /\ Cardinality(RowsOf(df_in, GroupOf(summary[1]))) = 5
  /\ Cardinality(TrueRunsOf(GroupOf(summary[1]))) = 2

\* the dates of the records of the run table's row k
RunDates(k) == {df[i].dt : i \in Members(k)}

\* C24: for an input with at most one row per group and date, a run starts
\* no later than it ends, its length is at most the number of calendar days
\* from start to end and equals it exactly when its records cover every one
\* of those days, and of two consecutive runs of a group the earlier ends
\* strictly before the later starts
C24_RunBoundsAndLength ==
  Done /\ UniqueKeys =>
    /\ \A k \in 1..Len(runs) :
         /\ runs[k].start_dt <= runs[k].end_dt
         /\ runs[k].days <= runs[k].end_dt - runs[k].start_dt + 1
         /\ runs[k].days = runs[k].end_dt - runs[k].start_dt + 1
              <=> RunDates(k) = runs[k].start_dt..runs[k].end_dt
    /\ \A k, m \in 1..Len(runs) :
         /\ GroupOf(runs[k]) = GroupOf(runs[m])
         /\ runs[m].run_id = runs[k].run_id + 1
         => runs[k].end_dt < runs[m].start_dt

C24_Witness ==
  /\ Done
  /\ UniqueKeys
  /\ Len(runs) = 2
  /\ runs[1].days = 2 /\ runs[1].end_dt = runs[1].start_dt + 2
  /\ runs[2].days = 2 /\ runs[2].end_dt = runs[2].start_dt + 1
  /\ runs[2].start_dt > runs[1].end_dt + 1
  /\ df_in[1].dt > df_in[2].dt

\* C25: the summary table has at most one row for a group key, and the
\* streak bounds of a row are the start and the end of one full-stockout
\* row of the run table for the same group
C25_OneSummaryRowPerGroupFromARun ==
  Done =>
    /\ \A s, t \in 1..Len(summary) :
         GroupOf(summary[s]) = GroupOf(summary[t]) => s = t
    /\ \A s \in 1..Len(summary) :
         \E k \in TrueRunsOf(GroupOf(summary[s])) :
           /\ runs[k].start_dt = summary[s].max_streak_start_dt
           /\ runs[k].end_dt = summary[s].max_streak_end_dt

C25_Witness ==
  /\ Done
  /\ Len(summary) = 1
  /\ Cardinality(TrueRunsOf(GroupOf(summary[1]))) = 2
  /\ \E i, j \in 1..Len(df_in) :
       i # j /\ GroupOf(df_in[i]) = GroupOf(df_in[j]) /\ df_in[i].dt = df_in[j].dt
\* ---------------------------------------------------- crawler properties
\* the store requests main has to send: every keyword for every l2 id kept
\* for every product whose l2 ids were fetched
ExpectedPairs ==
  UNION {{<<E_CODES[i], l2_seen[i][j], Keywords[k]>> :
            j \in 1..Len(l2_seen[i]), k \in 1..Len(Keywords)} :
         i \in 1..Len(l2_seen)}

\* the rows collected for the n-th store request
RowsFor(n) ==
  {r \in 1..Len(all_rows) :
     <<all_rows[r].e_code, all_rows[r].l2_id, all_rows[r].keyword>> = requested[n]}

\* the fetches are over and main is at or behind its insert
FetchesFinished == cpc \in {"insert", "upsert", "done"}

\* C26: a request failure of fetch_stores for one pair does not end the
\* run: the pair adds no row and the rows collected before are kept, the
\* loops go on with the next keyword, l2 id or product, every pair of every
\* product is requested before the insert, and the run ends with the
\* insert of the collected rows
C26_StoreRequestFailureIsContained ==
  /\ [][cpc = "stores" /\ failures' # failures =>
          /\ all_rows' = all_rows
          /\ cpc' \in {"stores", "l2", "insert"}
          /\ <<cpc', ei', li', ki'>> =
               LET nxt == AfterPair(ei, li, ki, l2_ids, E_CODES)
               IN <<nxt.cpc, nxt.ei, nxt.li, nxt.ki>>]_vars
  /\ [][SubSeq(all_rows', 1, Len(all_rows)) = all_rows]_vars
  /\ [](cpc = "raised" => last = "fetch_l2_ids raised")
  /\ [](FetchesFinished /\ E_CODES # <<>> =>
          /\ Len(l2_seen) = Len(E_CODES)
          /\ {requested[n] : n \in 1..Len(requested)} = ExpectedPairs
          /\ Len(requested) = Cardinality(ExpectedPairs))
  /\ [](cpc = "done" /\ E_CODES # <<>> =>
          /\ calls[1].fn = "insert_rows"
          /\ calls[1].arg = all_rows)

C26_Witness ==
  /\ cpc = "done"
  /\ failures = 1
  /\ Len(E_CODES) = 2
  /\ Len(requested) = 8
  /\ Len(all_rows) = 7
  /\ RowsFor(2) = {}
  /\ RowsFor(1) # {}
  /\ \A n \in 3..8 : RowsFor(n) # {}
  /\ calls[1].arg = all_rows

\* the run is over, by the end of main or by an exception
RunOver == cpc \in {"done", "raised"}

\* C27: no database write happens before the fetches are finished; a run
\* with an active product calls insert_rows once with all collected rows and
\* then upsert_run_best once, with the run_id and collected_at of every
\* inserted row; a run without an active product calls neither
C27_WritesOnceAfterAllFetches ==
  /\ (\E c \in 1..Len(calls) : calls[c].wrote) => FetchesFinished
  /\ RunOver /\ E_CODES # <<>> =>
       /\ Len(calls) = 2
       /\ calls[1].fn = "insert_rows"
       /\ calls[1].arg = all_rows
       /\ calls[2].fn = "upsert_run_best"
       /\ calls[2].arg = RunId(now)
       /\ \A r \in 1..Len(all_rows) :
            /\ all_rows[r].run_id = RunId(now)
            /\ all_rows[r].collected_at = CollectedAt(now)
  /\ RunOver /\ E_CODES = <<>> => calls = <<>>
====
